---- MODULE Spec2Model ----
(***************************************************************************)
(* A model of hypowertools: the Hyprland workspace switcher with its icon  *)
(* cache (src/src/workspace_switcher.rs), the NetworkManager widget        *)
(* (src/src/network_widget.rs) and the application object that owns them   *)
(* (src/src/main.rs).                                                      *)
(*                                                                         *)
(* The external tools (hyprctl, nmcli, find, the file system) are the      *)
(* environment.  The compositor is modelled as state (hypr_workspaces,     *)
(* hypr_active) that changes on its own; the output of every nmcli query   *)
(* and whether a command can be launched at all are inputs of the step     *)
(* that issues the query.  Text is modelled as TLA+ strings and parsed     *)
(* the way the code parses it.                                             *)
(***************************************************************************)
EXTENDS Integers, Sequences, FiniteSets, TLC

VARIABLES
    args,               \* main.rs Args: which widgets the process was started with
    \* ---- the compositor (environment) and WorkspaceSwitcher
    hypr_workspaces,    \* the compositor's workspaces, in the order `hyprctl workspaces -j` lists them
    hypr_active,        \* the id of the compositor's active workspace
    workspaces,         \* WorkspaceSwitcher.workspaces
    current_workspace,  \* WorkspaceSwitcher.current_workspace
    hypr_calls,         \* the hyprctl commands the last operation issued: <<[cmd, ok]>>
    hypr_windows,       \* the compositor's windows, as `hyprctl clients -j` lists them
    windows,            \* the window list the last show() drew from
    ws_frame,           \* the tick that has just run: Some([due, idle, selected, drawn, input, list, current]), due: the poll was due, idle: no key and no click, selected: workspace_to_switch, drawn: the icons and the label of every button, input: the key or click, list and current: the fields show() read; None once the compositor has changed since, and before the first tick
    close_sent,         \* whether ViewportCommand::Close has been sent
    \* ---- the file system (environment) and IconCache
    fs,                 \* what is on disk and what `find` prints: a record of FsSnapshots
    cache,              \* IconCache.cache: class name -> Option<TextureHandle>
    background,         \* WorkspaceSwitcher.background: Option<TextureHandle>
    icon_call,          \* the last get_or_load call since new() or cleanup(): [class, ret, path, io], io counting its file-system work
    \* ---- NetworkWidget
    connection_state,   \* NetworkWidget.connection_state
    known_networks,     \* NetworkWidget.known_networks
    available_networks, \* NetworkWidget.available_networks
    expanded_network,   \* NetworkWidget.expanded_network: Option<String>
    networks_to_show,   \* the display list the last show() built, None before the first frame
    nm_calls,           \* the nmcli queries the poll of the last frame issued and their outputs: <<[cmd, ok, out]>>, <<>> if it did not poll
    nm_spawned,         \* the nmcli command the last frame spawned for a button click, if any
    nm_clicked,         \* what the pointer clicked in the last frame: [kind, idx], kind "none" before the first
    \* ---- HyprWidgets::update
    POSITIONED,         \* static mut POSITIONED: the window has been moved to its place
    ATTEMPTS,           \* static mut ATTEMPTS: the runs of the positioning block so far
    pos_tick            \* the positioning block in the last tick: [attempt, repaint], attempt: it ran, repaint: it requested a repaint

ws_vars == <<hypr_workspaces, hypr_active, workspaces, current_workspace, hypr_calls,
             hypr_windows, windows, ws_frame, close_sent>>

icon_vars == <<fs, cache, background, icon_call>>

nw_vars == <<connection_state, known_networks, available_networks, expanded_network,
             networks_to_show, nm_calls, nm_spawned, nm_clicked>>

pos_vars == <<POSITIONED, ATTEMPTS, pos_tick>>

vars == <<args, ws_vars, icon_vars, nw_vars, pos_vars>>

-----------------------------------------------------------------------------
(* Bounds of the model.                                                    *)

\* workspace ids the compositor may hold are 1..MaxWorkspaceId
MaxWorkspaceId == 3

-----------------------------------------------------------------------------
(* Option<T> and Result<T, E>.                                             *)

None == [some |-> FALSE]

Some(v) == [some |-> TRUE, value |-> v]

\* a command that could not be launched, or whose output did not decode / parse
Err == [ok |-> FALSE]

Ok(v) == [ok |-> TRUE, value |-> v]

-----------------------------------------------------------------------------
(* Sequences.                                                              *)

Range(s) == {s[i] : i \in 1..Len(s)}

\* the sequences of 1..n distinct elements of S
DistinctSeqs(S, n) ==
    {s \in UNION {[1..k -> S] : k \in 1..n} :
        \A i, j \in 1..Len(s) : i # j => s[i] # s[j]}

-----------------------------------------------------------------------------
(* Text: the str methods the code uses, on TLA+ strings.                   *)

\* str::starts_with
StartsWith(s, p) == Len(s) >= Len(p) /\ SubSeq(s, 1, Len(p)) = p

\* str::ends_with
EndsWith(s, p) == Len(s) >= Len(p) /\ SubSeq(s, Len(s) - Len(p) + 1, Len(s)) = p

\* str::contains
Contains(s, p) ==
    \E i \in 1..(Len(s) - Len(p) + 1) : SubSeq(s, i, i + Len(p) - 1) = p

UpperCase == "ABCDEFGHIJKLMNOPQRSTUVWXYZ"

LowerCase == "abcdefghijklmnopqrstuvwxyz"

LowerChar(c) ==
    IF \E i \in 1..Len(UpperCase) : SubSeq(UpperCase, i, i) = c
    THEN LET i == CHOOSE k \in 1..Len(UpperCase) : SubSeq(UpperCase, k, k) = c
         IN  SubSeq(LowerCase, i, i)
    ELSE c

\* str::to_lowercase (ASCII text)
RECURSIVE to_lowercase(_)
to_lowercase(s) ==
    IF s = "" THEN ""
    ELSE LowerChar(SubSeq(s, 1, 1)) \o to_lowercase(SubSeq(s, 2, Len(s)))

\* str::replace(from, to) for a one-character pattern
RECURSIVE replace(_, _, _)
replace(s, from, to) ==
    IF s = "" THEN ""
    ELSE (IF SubSeq(s, 1, 1) = from THEN to ELSE SubSeq(s, 1, 1))
         \o replace(SubSeq(s, 2, Len(s)), from, to)

\* str::trim_start_matches(p): every leading repetition of p removed
RECURSIVE trim_start_matches(_, _)
trim_start_matches(s, p) ==
    IF p # "" /\ StartsWith(s, p)
    THEN trim_start_matches(SubSeq(s, Len(p) + 1, Len(s)), p)
    ELSE s

\* str::split(sep) for a one-character separator: always at least one field
RECURSIVE split(_, _)
split(s, sep) ==
    IF ~Contains(s, sep) THEN <<s>>
    ELSE LET i == CHOOSE k \in 1..Len(s) :
                    /\ SubSeq(s, k, k) = sep
                    /\ \A j \in 1..(k - 1) : SubSeq(s, j, j) # sep
         IN  <<SubSeq(s, 1, i - 1)>> \o split(SubSeq(s, i + 1, Len(s)), sep)

\* the user's home directory
Home == "/home/user"

\* shellexpand::tilde: a leading ~ becomes the home directory
tilde(p) ==
    IF p = "~" \/ StartsWith(p, "~/") THEN Home \o SubSeq(p, 2, Len(p)) ELSE p

\* the least element of a non-empty set of integers
Min(S) == CHOOSE m \in S : \A k \in S : m <= k

\* the least element of a set of positive integers, 0 for the empty set
MinOr0(S) == IF S = {} THEN 0 ELSE Min(S)

-----------------------------------------------------------------------------
(* The compositor, as hyprctl reports it.                                  *)

WorkspaceIds == 1..MaxWorkspaceId

\* Hyprland names a workspace after its id unless the user renames it
WorkspaceName(id) == ToString(id)

\* struct Workspace {id, name}
Workspace(id) == [id |-> id, name |-> WorkspaceName(id)]

\* what `hyprctl workspaces -j` can list: at least one workspace, ids distinct
\* (the id is the workspace's identity in the compositor), in any order
HyprLists ==
    {[i \in 1..Len(s) |-> Workspace(s[i])] : s \in DistinctSeqs(WorkspaceIds, MaxWorkspaceId)}

\* the compositor: its workspaces and the active one, which is one of them
HyprStates ==
    {h \in [list : HyprLists, active : WorkspaceIds] :
        \E i \in 1..Len(h.list) : h.list[i].id = h.active}

-----------------------------------------------------------------------------
(* WorkspaceSwitcher: polling the compositor.                              *)

\* Vec::sort_by_key(|w| w.id): a stable sort, here by insertion
RECURSIVE InsertByKey(_, _)
InsertByKey(w, s) ==
    IF s = <<>> THEN <<w>>
    ELSE IF w.id < Head(s).id THEN <<w>> \o s
    ELSE <<Head(s)>> \o InsertByKey(w, Tail(s))

RECURSIVE SortByKey(_)
SortByKey(s) ==
    IF s = <<>> THEN <<>>
    ELSE InsertByKey(s[Len(s)], SortByKey(SubSeq(s, 1, Len(s) - 1)))

\* get_workspaces() without its sort_by_key call
get_workspaces_unsorted(reply) ==
    IF reply.ok THEN reply.value ELSE <<>>

\* get_workspaces(), given the outcome of `hyprctl workspaces -j` parsed as
\* Vec<Workspace>: the list sorted by id, or an empty list on any failure
get_workspaces(reply) ==
    IF reply.ok THEN SortByKey(reply.value) ELSE <<>>

\* get_current_workspace(), given the outcome of `hyprctl activeworkspace -j`
\* parsed as Workspace: its id, or 1 on any failure
get_current_workspace(reply) ==
    IF reply.ok THEN reply.value.id ELSE 1

\* the reply to a hyprctl query: Err when launching, decoding or parsing fails
HyprReply(works, value) == IF works THEN Ok(value) ELSE Err

\* WorkspaceSwitcher::update(): both queries, always; both fields assigned
WsUpdate(listWorks, activeWorks) ==
    LET listReply   == HyprReply(listWorks, hypr_workspaces)
        activeReply == HyprReply(activeWorks, Workspace(hypr_active))
    IN  /\ workspaces' = get_workspaces(listReply)
        /\ current_workspace' = get_current_workspace(activeReply)
        /\ hypr_calls' = << [cmd |-> "workspaces", ok |-> listReply.ok],
                            [cmd |-> "activeworkspace", ok |-> activeReply.ok] >>

\* WorkspaceSwitcher::new(): empty list, workspace 1, then update()
WsNew ==
    /\ \E h \in HyprStates : hypr_workspaces = h.list /\ hypr_active = h.active
    /\ \E listWorks, activeWorks \in BOOLEAN :
        LET listReply   == HyprReply(listWorks, hypr_workspaces)
            activeReply == HyprReply(activeWorks, Workspace(hypr_active))
        IN  /\ workspaces = get_workspaces(listReply)
            /\ current_workspace = get_current_workspace(activeReply)
            /\ hypr_calls = << [cmd |-> "workspaces", ok |-> listReply.ok],
                               [cmd |-> "activeworkspace", ok |-> activeReply.ok] >>
    /\ windows = <<>>
    /\ ws_frame = None
    /\ close_sent = FALSE

\* HyprWidgets::update / show call update(): a poll of the compositor
WsPoll ==
    /\ args.workspaces
    /\ \E listWorks, activeWorks \in BOOLEAN : WsUpdate(listWorks, activeWorks)
    /\ UNCHANGED <<args, pos_vars, hypr_workspaces, hypr_active, icon_vars, nw_vars,
                   hypr_windows, windows, ws_frame, close_sent>>

\* the compositor changes on its own: workspaces appear, vanish, are
\* listed in another order, another one becomes active
CompositorChange ==
    /\ args.workspaces
    /\ \E h \in HyprStates :
        /\ <<h.list, h.active>> # <<hypr_workspaces, hypr_active>>
        /\ hypr_workspaces' = h.list
        /\ hypr_active' = h.active
    /\ UNCHANGED <<args, pos_vars, workspaces, current_workspace, hypr_calls, icon_vars, nw_vars,
                   hypr_windows, windows, ws_frame, close_sent>>

-----------------------------------------------------------------------------
(* The file system and the `find` command, as IconCache sees them.         *)

\* the three fixed Flatpak paths of Discord
flatpak_paths ==
    << "/var/lib/flatpak/app/com.discordapp.Discord/current/active/files/discord/discord.png",
       "/var/lib/flatpak/app/com.discordapp.Discord/current/active/export/share/icons/hicolor/256x256/apps/com.discordapp.Discord.png",
       "~/.local/share/flatpak/app/com.discordapp.Discord/current/active/files/discord/discord.png" >>

icon_theme_paths ==
    << "/var/lib/flatpak/exports/share/icons/hicolor",
       "~/.local/share/flatpak/exports/share/icons/hicolor",
       "/usr/share/icons/hicolor",
       "/usr/share/icons/Papirus",
       "/usr/share/icons/breeze",
       "/usr/share/icons/default",
       "~/.local/share/icons" >>

sizes == <<"256x256", "128x128", "64x64", "48x48", "32x32", "24x24", "16x16", "scalable">>

categories == <<"apps", "devices", "places", "status">>

\* the name variants tried for an icon name, in order
icon_variations(icon_name) ==
    << icon_name,
       to_lowercase(icon_name),
       replace(icon_name, ".", "-"),
       to_lowercase(replace(icon_name, ".", "-")),
       "com.discordapp." \o icon_name,
       icon_name \o ".png" >>

\* a variant of fallback_paths below: the .xpm path is probed before the .svg
fallback_paths_xpm_first(icon_name) ==
    << tilde("/usr/share/pixmaps/" \o icon_name \o ".png"),
       tilde("/usr/share/pixmaps/" \o icon_name \o ".xpm"),
       tilde("/usr/share/pixmaps/" \o icon_name \o ".svg"),
       tilde(icon_name) >>

\* the last-resort paths for an icon name, in probing order
fallback_paths(icon_name) ==
    << tilde("/usr/share/pixmaps/" \o icon_name \o ".png"),
       tilde("/usr/share/pixmaps/" \o icon_name \o ".svg"),
       tilde("/usr/share/pixmaps/" \o icon_name \o ".xpm"),
       tilde(icon_name) >>

\* a variant of FirstExisting below: the last path that exists
LastExisting(paths, exists) ==
    Len(paths) + 1 - MinOr0({Len(paths) + 1 - i : i \in {k \in 1..Len(paths) : paths[k] \in exists}}
                            \cup {Len(paths) + 1})

\* the index of the first path of a sequence that exists on disk, 0 if none
FirstExisting(paths, exists) ==
    MinOr0({i \in 1..Len(paths) : paths[i] \in exists})

\* the desktop files of the model and their lines
FirefoxDesktop == "/usr/share/applications/firefox.desktop"

DiscordDesktop == "/usr/share/applications/discord.desktop"

FirefoxEsrDesktop == "/usr/share/applications/firefox-esr.desktop"

DesktopContent(path) ==
    IF path = FirefoxDesktop
    THEN <<"[Desktop Entry]", "Name=Firefox", "Exec=firefox %u", "Icon=firefox">>
    ELSE IF path = FirefoxEsrDesktop
    THEN <<"[Desktop Entry]", "Name=Firefox ESR", "Exec=firefox-esr %u",
          "Icon=/opt/firefox-esr/icon.png">>
    ELSE <<"[Desktop Entry]", "Name=Discord", "Exec=/usr/bin/discord", "Icon=discord">>

\* what `find ... -name *.desktop` can print: nothing usable (it cannot be
\* launched, or its output is not UTF-8), or the desktop files one per line
FindOutputs ==
    {Err, Ok(<<>>), Ok(<<FirefoxDesktop>>), Ok(<<DiscordDesktop, FirefoxDesktop>>),
     Ok(<<FirefoxDesktop, FirefoxEsrDesktop>>)}

\* the icon files the model's disk may hold
IconFiles ==
    { tilde(flatpak_paths[1]),
      tilde(flatpak_paths[3]),
      "/usr/share/icons/hicolor/48x48/apps/firefox.png",
      "/usr/share/icons/hicolor/scalable/apps/firefox.svg",
      "/usr/share/pixmaps/discord.xpm" }

\* the icon files that, when present, may be unreadable or damaged
DamagedFiles ==
    { tilde(flatpak_paths[1]),
      "/usr/share/icons/hicolor/48x48/apps/firefox.png" }

\* the states of the disk: which icon files exist, which of the existing ones
\* do not decode, and what find prints
FsSnapshots ==
    {f \in [exists : SUBSET IconFiles, damaged : SUBSET DamagedFiles, find : FindOutputs] :
        f.damaged \subseteq f.exists}

\* the icon files of the disks the search order is followed on: theme files of
\* two roots, three size tiers and both extensions, pixmaps, and the file an
\* Icon= line names by its full path
SearchFiles ==
    { "/usr/share/icons/hicolor/48x48/apps/firefox.png",
      "/usr/share/icons/hicolor/48x48/apps/firefox.svg",
      "/usr/share/icons/hicolor/scalable/apps/firefox.svg",
      "/usr/share/icons/Papirus/128x128/apps/firefox.png",
      "/usr/share/pixmaps/firefox.svg",
      "/usr/share/pixmaps/firefox.xpm",
      "/opt/firefox-esr/icon.png" }

\* the disks of the search: any of these files, all readable
SearchSnapshots ==
    [exists : SUBSET SearchFiles, damaged : {{}}, find : FindOutputs]

-----------------------------------------------------------------------------
(* IconCache.                                                              *)

\* the edge of every icon bitmap, in pixels
IconSize == 24

\* a texture handle: its name and its size in pixels, <<width, height>>
Texture(name, size) == [name |-> name, size |-> size]

\* the intrinsic size of the image in an icon file of the model's disk
SourceSize(path) ==
    CASE EndsWith(path, "/discord.png") -> <<256, 128>>
      [] EndsWith(path, "/firefox.png") -> <<48, 48>>
      [] OTHER                          -> <<64, 32>>

\* a variant of resize_exact below: DynamicImage::resize, the largest size
\* within width x height that keeps the aspect ratio of the image
resize(dims, width, height) ==
    IF dims[1] * height >= dims[2] * width
    THEN <<width, (dims[2] * width) \div dims[1]>>
    ELSE <<(dims[1] * height) \div dims[2], height>>

\* DynamicImage::resize_exact: width x height, whatever the image's size
resize_exact(dims, width, height) == <<width, height>>

\* load_svg: None when the file cannot be read or parsed, else a texture
load_svg(path, f) ==
    IF path \in f.exists /\ path \notin f.damaged
    THEN \* the image is drawn, scaled and centred, into Pixmap::new(size, size)
         Some(Texture("svg-icon-" \o path, <<IconSize, IconSize>>))
    ELSE None

\* load_png: None when image::open fails (the file is missing or damaged, or
\* its extension names no raster format the image crate decodes), else a texture
load_png(path, f) ==
    IF path \in f.exists /\ path \notin f.damaged /\ EndsWith(path, ".png")
    THEN Some(Texture("png-icon-" \o path, resize_exact(SourceSize(path), IconSize, IconSize)))
    ELSE None

\* the alias table
lookup_class(class_name) ==
    CASE class_name = "Cursor"  -> "com.cursor.Cursor"
      [] class_name = "discord" -> "com.discordapp.Discord"
      [] class_name = "Discord" -> "com.discordapp.Discord"
      [] OTHER -> class_name

\* whether a desktop file's content is for the application
is_match(content, lookup, class_name) ==
    \E i \in 1..Len(content) :
        /\ StartsWith(content[i], "Name=") \/ StartsWith(content[i], "Exec=")
        /\ \/ Contains(to_lowercase(content[i]), to_lowercase(lookup))
           \/ Contains(to_lowercase(content[i]), to_lowercase(class_name))

\* the value of the first Icon= line of a desktop file, if it has one
icon_line(content) ==
    LET hits == {i \in 1..Len(content) : StartsWith(content[i], "Icon=")}
    IN  IF hits = {} THEN None
        ELSE Some(trim_start_matches(content[Min(hits)], "Icon="))

\* the 'desktop_search loop over the lines find printed: found_icon_name after
\* it.  The inner `break` leaves the loop over the file's lines only, so every
\* listed file is read and a later matching file replaces the name
RECURSIVE desktop_search(_, _, _, _)
desktop_search(desktop_files, lookup, class_name, found) ==
    IF desktop_files = <<>> THEN found
    ELSE LET content == DesktopContent(tilde(Head(desktop_files)))
             next == IF is_match(content, lookup, class_name) /\ icon_line(content).some
                     THEN icon_line(content)
                     ELSE found
         IN  desktop_search(Tail(desktop_files), lookup, class_name, next)

\* the classes of the windows of the model
WindowClasses == {"discord", "Discord", "firefox", "Cursor"}

\* show(): the name it passes to get_app_icon for a window class
lookup_name(app_class) == IF app_class = "Cursor" THEN "cursor" ELSE app_class

\* the names get_or_load is called with
Classes == {lookup_name(app_class) : app_class \in WindowClasses}

\* every icon name a lookup of the model can search for: an alias-mapped
\* class, or the Icon= value of a desktop file
IconNames ==
    {lookup_class(cn) : cn \in Classes}
    \cup {icon_line(DesktopContent(d)).value : d \in {FirefoxDesktop, FirefoxEsrDesktop, DiscordDesktop}}

\* icon_variations, tabulated
IconVariations == [n \in IconNames |-> icon_variations(n)]

\* the .png and the .svg path of one theme / size / category / variation
possible_paths(theme_path, size, category, variation) ==
    << tilde(theme_path) \o "/" \o size \o "/" \o category \o "/" \o variation \o ".png",
       tilde(theme_path) \o "/" \o size \o "/" \o category \o "/" \o variation \o ".svg" >>

\* a variant of search_path below: the size tier is the outermost loop and the
\* theme root the second
search_path_by_size(vs, k) ==
    possible_paths(
        icon_theme_paths[(((k - 1) \div (2 * Len(vs) * Len(categories))) % Len(icon_theme_paths)) + 1],
        sizes[((k - 1) \div (2 * Len(vs) * Len(categories) * Len(icon_theme_paths))) + 1],
        categories[(((k - 1) \div (2 * Len(vs))) % Len(categories)) + 1],
        vs[(((k - 1) \div 2) % Len(vs)) + 1])[((k - 1) % 2) + 1]

\* the k-th path the 'icon_search loops probe for the name variants vs: theme
\* outermost, then size, category, variation, and .png before .svg
search_path(vs, k) ==
    possible_paths(
        icon_theme_paths[((k - 1) \div (2 * Len(vs) * Len(categories) * Len(sizes))) + 1],
        sizes[(((k - 1) \div (2 * Len(vs) * Len(categories))) % Len(sizes)) + 1],
        categories[(((k - 1) \div (2 * Len(vs))) % Len(categories)) + 1],
        vs[(((k - 1) \div 2) % Len(vs)) + 1])[((k - 1) % 2) + 1]

\* every path the 'icon_search loops probe for the name variants vs, in
\* probing order
icon_search_paths(vs) ==
    [k \in 1..(Len(icon_theme_paths) * Len(sizes) * Len(categories) * Len(vs) * 2) |->
        search_path(vs, k)]

\* icon_search_paths, tabulated over the icon names
IconSearchPaths == [n \in IconNames |-> icon_search_paths(IconVariations[n]) \o <<>>]

\* the indexes of the paths of a sequence that are in a set
IndexesIn(paths, S) == {k \in 1..Len(paths) : paths[k] \in S}

\* the indexes in IconSearchPaths[n] of the paths that the disk of the model
\* may hold: no other path of the search can exist
ProbeHits == [n \in IconNames |-> IndexesIn(IconSearchPaths[n], IconFiles \cup SearchFiles) \cup {}]

\* the 'icon_search loops on a disk: the index in the probing order of the
\* first path that exists, 0 if none
icon_search(icon_name, exists) ==
    MinOr0({k \in ProbeHits[icon_name] : IconSearchPaths[icon_name][k] \in exists})

\* desktop_search, tabulated over the classes and the listings of the model
FoundIconName ==
    [x \in {<<cn, o.value>> : cn \in Classes, o \in FindOutputs \ {Err}} |->
        desktop_search(x[2], lookup_class(x[1]), x[1], None)]

\* the file-system work of one call
NoIo == [find |-> 0, reads |-> 0, probes |-> 0, decodes |-> 0]

\* found_icon_name.unwrap_or(lookup_class) after the desktop files find listed
searched_icon_name(class_name, listed) ==
    LET found == FoundIconName[<<class_name, listed>>]
    IN  IF found.some THEN found.value ELSE lookup_class(class_name)

\* the fallback probes, made when the theme search found nothing (t = 0): the
\* index of the first existing fallback path, 0 if none
fallback_search(icon_name, exists, t) ==
    IF t = 0 THEN FirstExisting(fallback_paths(icon_name), exists) ELSE 0

\* icon_path after the theme search (index t) and the fallback (index b)
found_icon_path(icon_name, t, b) ==
    IF t # 0 THEN Some(IconSearchPaths[icon_name][t])
    ELSE IF b # 0 THEN Some(fallback_paths(icon_name)[b])
    ELSE None

\* the decode of icon_path: load_svg for a .svg path, load_png otherwise
load_icon(icon_path, f) ==
    IF ~icon_path.some THEN None
    ELSE IF EndsWith(icon_path.value, ".svg")
         THEN load_svg(icon_path.value, f)
         ELSE load_png(icon_path.value, f)

\* the existence probes of the theme search and the fallback
search_probes(icon_name, t, b) ==
    (IF t # 0 THEN t ELSE Len(IconSearchPaths[icon_name]))
    + (IF t # 0 THEN 0 ELSE IF b # 0 THEN b ELSE Len(fallback_paths(icon_name)))

\* the decode and the cache insert that end get_or_load
load_and_insert(icon_path, f, reads, probes) ==
    [ret    |-> load_icon(icon_path, f),
     insert |-> TRUE,
     path   |-> icon_path,
     io     |-> [find    |-> 1,
                 reads   |-> reads,
                 probes  |-> probes,
                 decodes |-> IF icon_path.some THEN 1 ELSE 0]]

\* the fallback, the decode and the insert after a theme search that ended at
\* index t
fallback_and_load(icon_name, t, f, reads, probed) ==
    load_and_insert(
        found_icon_path(icon_name, t, fallback_search(icon_name, f.exists, t)),
        f, reads,
        probed + search_probes(icon_name, t, fallback_search(icon_name, f.exists, t)))

\* the theme search, the fallback, the decode and the insert for an icon name
theme_search_and_load(icon_name, f, reads, probed) ==
    fallback_and_load(icon_name, icon_search(icon_name, f.exists), f, reads, probed)

\* get_or_load past the fixed probes and a successful find: desktop search,
\* theme search, fallback and decode; the result is inserted into the cache
search_and_load(class_name, f, probed) ==
    theme_search_and_load(searched_icon_name(class_name, f.find.value), f,
                          Len(f.find.value), probed)

\* get_or_load past the cache lookup, on disk f: what it returns, whether it
\* inserts that into the cache, the icon path it settled on and its
\* file-system work
resolve(class_name, f) ==
    LET fixed == IF lookup_class(class_name) = "com.discordapp.Discord"
                 THEN [i \in 1..Len(flatpak_paths) |-> tilde(flatpak_paths[i])]
                 ELSE <<>>
        p     == FirstExisting(fixed, f.exists)
    IN  IF p # 0
        THEN \* `return self.load_png(..)`: the cache is not written
             [ret |-> load_png(fixed[p], f), insert |-> FALSE, path |-> Some(fixed[p]),
              io |-> [find |-> 0, reads |-> 0, probes |-> p, decodes |-> 1]]
        ELSE IF ~f.find.ok
        THEN \* `.ok()?`: None is returned, the cache is not written
             [ret |-> None, insert |-> FALSE, path |-> None,
              io |-> [find |-> 1, reads |-> 0, probes |-> Len(fixed), decodes |-> 0]]
        ELSE search_and_load(class_name, f, Len(fixed))

\* HashMap::insert
Insert(c, key, value) ==
    [k \in DOMAIN c \cup {key} |-> IF k = key THEN value ELSE c[k]]

\* get_or_load on a miss, given what the resolution r produced
after_miss(c, class_name, r) ==
    [ret   |-> r.ret,
     cache |-> IF r.insert THEN Insert(c, class_name, r.ret) ELSE c,
     path  |-> r.path,
     io    |-> r.io]

\* get_or_load without the lookup that returns a stored entry
get_or_load_no_lookup(c, class_name, f) ==
    after_miss(c, class_name, resolve(class_name, f))

\* IconCache::get_or_load(class_name) on cache c and disk f: what it returns,
\* the cache after it, the icon path it settled on and its file-system work
get_or_load(c, class_name, f) ==
    IF class_name \in DOMAIN c
    THEN [ret |-> c[class_name], cache |-> c, path |-> None, io |-> NoIo]
    ELSE after_miss(c, class_name, resolve(class_name, f))

\* an empty HashMap
EmptyMap == [k \in {} |-> None]

\* no get_or_load call yet
NoCall == [class |-> "", ret |-> None, path |-> None, io |-> NoIo]

\* IconCache::new() and the fields of WorkspaceSwitcher::new() beside it
IconNew ==
    /\ cache = EmptyMap
    /\ background = None
    /\ icon_call = NoCall

\* a call of get_or_load, as show() makes through get_app_icon
GetOrLoad(class_name) ==
    \E r \in {get_or_load(cache, class_name, fs)} :
        /\ cache' = r.cache
        /\ icon_call' = [class |-> class_name, ret |-> r.ret, path |-> r.path, io |-> r.io]
        /\ UNCHANGED <<args, pos_vars, ws_vars, nw_vars, fs, background>>

\* show(): the icon of a window class
ShowIcon(app_class) == GetOrLoad(lookup_name(app_class))

GetAppIcon ==
    /\ args.workspaces
    /\ \E app_class \in WindowClasses : ShowIcon(app_class)

\* WorkspaceSwitcher::cleanup()
Cleanup ==
    /\ args.workspaces
    /\ cache' = EmptyMap
    /\ background' = None
    /\ icon_call' = NoCall
    /\ UNCHANGED <<args, pos_vars, ws_vars, nw_vars, fs>>

\* the disk changes: an icon file appears or vanishes, gets damaged or
\* repaired, or the desktop files `find` prints change
FsChange ==
    /\ args.workspaces
    /\ \/ \E p \in IconFiles \ fs.exists :
            fs' = [fs EXCEPT !.exists = @ \cup {p}]
       \/ \E p \in fs.exists :
            fs' = [fs EXCEPT !.exists = @ \ {p}, !.damaged = @ \ {p}]
       \/ \E p \in (DamagedFiles \cap fs.exists) \ fs.damaged :
            fs' = [fs EXCEPT !.damaged = @ \cup {p}]
       \/ \E p \in fs.damaged :
            fs' = [fs EXCEPT !.damaged = @ \ {p}]
       \/ \E o \in FindOutputs \ {fs.find} :
            fs' = [fs EXCEPT !.find = o]
    /\ UNCHANGED <<args, pos_vars, ws_vars, nw_vars, cache, background, icon_call>>

-----------------------------------------------------------------------------
(* WorkspaceSwitcher: a tick of the switcher (main.rs update, show).       *)

\* struct Window: the fields show() reads
Window(class, workspace) == [class |-> class, workspace |-> workspace]

\* the compositors of the model: the workspaces, the active one, the windows
HyprWorlds ==
    { [list |-> <<Workspace(1)>>, active |-> 1, windows |-> <<>>],
      [list |-> <<Workspace(1), Workspace(2)>>, active |-> 1,
       windows |-> <<Window("firefox", 1), Window("Cursor", 2), Window("firefox", 1),
                     Window("hypowertools", 1), Window("Discord", 1), Window("discord", 1),
                     Window("Discord", 1), Window("Cursor", 1)>>],
      [list |-> <<Workspace(2), Workspace(1), Workspace(3)>>, active |-> 3,
       windows |-> <<Window("Cursor", 3), Window("firefox", 2)>>] }

\* get_windows(), given the outcome of `hyprctl clients -j` parsed as
\* Vec<Window>: the list, or an empty list on any failure
get_windows(reply) == IF reply.ok THEN reply.value ELSE <<>>

\* the classes of the windows of a workspace, but for the switcher's own window
RECURSIVE workspace_windows(_, _)
workspace_windows(ws, id) ==
    IF ws = <<>> THEN <<>>
    ELSE (IF Head(ws).workspace = id /\ Head(ws).class # "hypowertools"
          THEN <<Head(ws).class>> ELSE <<>>)
         \o workspace_windows(Tail(ws), id)

\* a variant of unique_windows below that keeps the repetitions
repeated_windows(classes) == classes

\* the classes without the repetitions of an earlier one
RECURSIVE unique_windows(_)
unique_windows(classes) ==
    IF classes = <<>> THEN <<>>
    ELSE unique_windows(SubSeq(classes, 1, Len(classes) - 1))
         \o (IF \E i \in 1..(Len(classes) - 1) : classes[i] = classes[Len(classes)]
             THEN <<>> ELSE <<classes[Len(classes)]>>)

\* the names show() asks get_app_icon for, in the order it draws: for every
\* workspace of the list the first three classes of its windows
RECURSIVE icon_names(_, _)
icon_names(ws, list) ==
    IF list = <<>> THEN <<>>
    ELSE [i \in 1..Min({3, Len(unique_windows(workspace_windows(ws, Head(list).id)))}) |->
             lookup_name(unique_windows(workspace_windows(ws, Head(list).id))[i])]
         \o icon_names(ws, Tail(list))

\* what show() draws on the button of workspace id for the classes u: the
\* classes it asks an icon for and the number on the "+n" label (0: no label)
button_icons(id, u) ==
    [id    |-> id,
     icons |-> SubSeq(u, 1, Min({3, Len(u)})),
     more  |-> IF Len(u) > 3 THEN Len(u) - 3 ELSE 0]

\* the buttons of a frame, in the order of the list
RECURSIVE drawn_icons(_, _)
drawn_icons(ws, list) ==
    IF list = <<>> THEN <<>>
    ELSE <<button_icons(Head(list).id, unique_windows(workspace_windows(ws, Head(list).id)))>>
         \o drawn_icons(ws, Tail(list))

\* the get_app_icon calls of a frame, in order: the cache after them and the
\* last call made (call, when there is none)
RECURSIVE show_icons(_, _, _, _)
RECURSIVE after_icon(_, _, _)
show_icons(c, call, names, f) ==
    IF names = <<>> THEN [cache |-> c, call |-> call]
    ELSE after_icon(get_or_load(c, Head(names), f), names, f)

after_icon(r, names, f) ==
    show_icons(r.cache, [class |-> Head(names), ret |-> r.ret, path |-> r.path, io |-> r.io],
               Tail(names), f)

\* the keys show() reads, and a click on the n-th workspace button
Inputs(list) ==
    {[kind |-> k, n |-> 0] : k \in {"none", "ArrowLeft", "ArrowRight", "Tab", "Escape", "Enter"}}
    \cup {[kind |-> "Num", n |-> n] : n \in WorkspaceIds \cup {10}}
    \cup {[kind |-> "click", n |-> n] : n \in 1..Len(list)}

\* workspaces.iter().position(|w| w.id == current_workspace), from 1; 0 for None
position(list, current) == MinOr0({i \in 1..Len(list) : list[i].id = current})

\* a variant of workspace_to_switch below where the arrows wrap around the list
workspace_to_switch_wrap(list, at, input) ==
    CASE input.kind = "ArrowLeft" /\ at > 0 ->
            Some(list[IF at > 1 THEN at - 1 ELSE Len(list)].id)
      [] input.kind \in {"ArrowRight", "Tab"} /\ at > 0 ->
            Some(list[IF at < Len(list) THEN at + 1 ELSE 1].id)
      [] input.kind = "Num" /\ (\E i \in 1..Len(list) : list[i].id = input.n) -> Some(input.n)
      [] input.kind = "click" -> Some(list[input.n].id)
      [] OTHER -> None

\* workspace_to_switch after the keys and the buttons of show()
workspace_to_switch(list, at, input) ==
    CASE input.kind = "ArrowLeft" /\ at > 1 -> Some(list[at - 1].id)
      [] input.kind \in {"ArrowRight", "Tab"} /\ at > 0 /\ at < Len(list) -> Some(list[at + 1].id)
      [] input.kind = "Num" /\ (\E i \in 1..Len(list) : list[i].id = input.n) -> Some(input.n)
      [] input.kind = "click" -> Some(list[input.n].id)
      [] OTHER -> None

\* whether the frame sends ViewportCommand::Close: show() on a number key
\* that names a workspace, on Escape and on Enter; main on Escape
should_close(list, input) ==
    \/ input.kind = "Num" /\ \E i \in 1..Len(list) : list[i].id = input.n
    \/ input.kind \in {"Escape", "Enter"}

\* the poll of a tick: update() when should_update() holds
tick_poll(due, listReply, activeReply) ==
    IF due
    THEN [workspaces |-> get_workspaces(listReply),
          current    |-> get_current_workspace(activeReply),
          calls      |-> << [cmd |-> "workspaces", ok |-> listReply.ok],
                            [cmd |-> "activeworkspace", ok |-> activeReply.ok] >>]
    ELSE [workspaces |-> workspaces, current |-> current_workspace, calls |-> <<>>]

\* a variant of the operator below without the update()
SwitchOnly(calls, id, dispatchWorks, listWorks, activeWorks) ==
    /\ hypr_active' = IF dispatchWorks THEN id ELSE hypr_active
    /\ hypr_workspaces' =
           IF dispatchWorks /\ \A i \in 1..Len(hypr_workspaces) : hypr_workspaces[i].id # id
           THEN Append(hypr_workspaces, Workspace(id))
           ELSE hypr_workspaces
    /\ UNCHANGED <<workspaces, current_workspace>>
    /\ hypr_calls' = calls \o <<[cmd |-> "dispatch", ok |-> dispatchWorks]>>

\* switch_to_workspace(id) and the update() that follows it in show(): the
\* dispatch makes the workspace the active one, creating it if need be, unless
\* hyprctl fails
SwitchAndUpdate(calls, id, dispatchWorks, listWorks, activeWorks) ==
    /\ hypr_active' = IF dispatchWorks THEN id ELSE hypr_active
    /\ hypr_workspaces' =
           IF dispatchWorks /\ \A i \in 1..Len(hypr_workspaces) : hypr_workspaces[i].id # id
           THEN Append(hypr_workspaces, Workspace(id))
           ELSE hypr_workspaces
    /\ workspaces' = get_workspaces(HyprReply(listWorks, hypr_workspaces'))
    /\ current_workspace' = get_current_workspace(HyprReply(activeWorks, Workspace(hypr_active')))
    /\ hypr_calls' = calls \o << [cmd |-> "dispatch", ok |-> dispatchWorks],
                                 [cmd |-> "workspaces", ok |-> listWorks],
                                 [cmd |-> "activeworkspace", ok |-> activeWorks] >>

\* show() on the polled fields p for an input: the window query, the icons
\* (ic: the cache and the last call after the get_app_icon calls of the frame),
\* the switch.  The queries of one tick work or fail together (works); the
\* dispatch works or fails on its own.
WsShow(p, input, sel, works, ic) ==
    /\ \E clientsWorks \in {works} :
         /\ windows' = get_windows(HyprReply(clientsWorks, hypr_windows))
         /\ cache' = ic.cache /\ icon_call' = ic.call
         /\ IF sel.some
            THEN \E dispatchWorks \in BOOLEAN, listWorks, activeWorks \in {works} :
                    SwitchAndUpdate(p.calls \o <<[cmd |-> "clients", ok |-> clientsWorks]>>,
                                    sel.value, dispatchWorks, listWorks, activeWorks)
            ELSE /\ workspaces' = p.workspaces
                 /\ current_workspace' = p.current
                 /\ hypr_calls' = p.calls \o <<[cmd |-> "clients", ok |-> clientsWorks]>>
                 /\ UNCHANGED <<hypr_workspaces, hypr_active>>
    /\ \E found \in (IF background.some THEN {TRUE} ELSE BOOLEAN) :
         background' = IF background.some \/ ~found THEN background
                       ELSE Some([name |-> "workspace-bg"])
    /\ close_sent' = should_close(p.workspaces, input)

\* const APP_ID: the class of the overlay's own window
APP_ID == "hypowertools"

\* the runs the positioning block makes at most
MaxAttempts == 5

\* whether the positioning block finds its window in the reply to `hyprctl
\* clients -j` (hyprctl prints an address for every client)
own_window_found(clients) ==
    clients.ok /\ \E i \in 1..Len(clients.value) : clients.value[i].class = APP_ID

\* a variant of positioning below that requests a repaint after every attempt
positioning_repaint(positioned, attempts, found) ==
    IF ~positioned /\ attempts < MaxAttempts
    THEN [attempt |-> TRUE, found |-> found, attempts |-> attempts + 1,
          positioned |-> found, repaint |-> TRUE]
    ELSE [attempt |-> FALSE, found |-> FALSE, attempts |-> attempts,
          positioned |-> positioned, repaint |-> FALSE]

\* the positioning block of HyprWidgets::update on the statics, found telling
\* whether its client query shows the overlay's window: whether the block
\* runs, the statics after it, and whether it requests a repaint
positioning(positioned, attempts, found) ==
    IF ~positioned /\ attempts < MaxAttempts
    THEN [attempt |-> TRUE, found |-> found, attempts |-> attempts + 1,
          positioned |-> found, repaint |-> ~found]
    ELSE [attempt |-> FALSE, found |-> FALSE, attempts |-> attempts,
          positioned |-> positioned, repaint |-> FALSE]

\* the hyprctl commands of the positioning block b: the client query and, when
\* the window is found, focuswindow, the two queries of update(),
\* togglefloating, movewindowpixel, resizewindowpixel and pin
positioning_calls(b, works) ==
    IF ~b.attempt THEN <<>>
    ELSE <<[cmd |-> "clients", ok |-> works]>>
         \o (IF b.found
             THEN << [cmd |-> "dispatch", ok |-> works],
                     [cmd |-> "workspaces", ok |-> works],
                     [cmd |-> "activeworkspace", ok |-> works],
                     [cmd |-> "dispatch", ok |-> works],
                     [cmd |-> "dispatch", ok |-> works],
                     [cmd |-> "dispatch", ok |-> works],
                     [cmd |-> "dispatch", ok |-> works] >>
             ELSE <<>>)

\* the fields show() reads after the positioning block b and the poll of the
\* tick: the block calls update() when it finds the window
tick_fields(b, due, works) ==
    [workspaces |-> tick_poll(due \/ b.found, HyprReply(works, hypr_workspaces),
                              HyprReply(works, Workspace(hypr_active))).workspaces,
     current    |-> tick_poll(due \/ b.found, HyprReply(works, hypr_workspaces),
                              HyprReply(works, Workspace(hypr_active))).current,
     calls      |-> positioning_calls(b, works)
                    \o tick_poll(due, HyprReply(works, hypr_workspaces),
                                 HyprReply(works, Workspace(hypr_active))).calls]

\* the statics of a process whose window has been positioned at the first attempt
Positioned ==
    /\ POSITIONED = TRUE
    /\ ATTEMPTS = 1
    /\ pos_tick = [attempt |-> FALSE, repaint |-> FALSE]

\* the statics when the process starts
PositioningNew ==
    /\ POSITIONED = FALSE
    /\ ATTEMPTS = 0
    /\ pos_tick = [attempt |-> FALSE, repaint |-> FALSE]

\* a tick of HyprWidgets::update: the positioning block while it is pending,
\* the poll when it is due, then show()
WsFrame ==
    /\ args.workspaces
    /\ ~close_sent
    /\ \E due, works \in BOOLEAN :
       \E b \in {positioning(POSITIONED, ATTEMPTS,
                              own_window_found(HyprReply(works, hypr_windows)))} :
       \E p \in {tick_fields(b, due, works)} :
       /\ POSITIONED' = b.positioned
       /\ ATTEMPTS' = b.attempts
       /\ pos_tick' = [attempt |-> b.attempt, repaint |-> b.repaint]
       /\ \E ic \in {show_icons(cache, icon_call,
                                  icon_names(get_windows(HyprReply(works, hypr_windows)),
                                             p.workspaces), fs)} :
          \E drawn \in {drawn_icons(get_windows(HyprReply(works, hypr_windows)),
                                     p.workspaces)} :
          \E input \in Inputs(p.workspaces) :
          \E sel \in {workspace_to_switch(p.workspaces, position(p.workspaces, p.current),
                                          input)} :
             /\ WsShow(p, input, sel, works, ic)
             /\ ws_frame' = Some([due |-> due, idle |-> input.kind = "none", selected |-> sel,
                                   drawn |-> drawn, input |-> input,
                                   list |-> p.workspaces, current |-> p.current])
    /\ UNCHANGED <<args, hypr_windows, fs, nw_vars>>

\* the compositor of the model changes on its own
WorldChange ==
    /\ args.workspaces
    /\ ~close_sent
    /\ \E w \in HyprWorlds :
        /\ <<w.list, w.active, w.windows>> # <<hypr_workspaces, hypr_active, hypr_windows>>
        /\ hypr_workspaces' = w.list
        /\ hypr_active' = w.active
        /\ hypr_windows' = w.windows
    /\ ws_frame' = None
    /\ UNCHANGED <<args, pos_vars, workspaces, current_workspace, hypr_calls, windows, close_sent,
                   icon_vars, nw_vars>>

-----------------------------------------------------------------------------
(* NetworkManager, as nmcli reports it.                                    *)

\* what `nmcli -t -f ACTIVE,SSID,SIGNAL device wifi` can print: nothing usable
\* (it cannot be launched, or its output is not UTF-8), or its lines
StatusOutputs ==
    { Err,
      Ok(<<>>),
      Ok(<<"yes:HomeNet:80">>),
      Ok(<<"no:HomeNet:80", "yes:Guest:40">>),
      Ok(<<"yes", "no:Guest:40">>) }

\* what `nmcli -t -f NAME,UUID connection show` can print
KnownOutputs ==
    { Err,
      Ok(<<>>),
      Ok(<<"HomeNet:1a">>),
      Ok(<<"eth0-ethernet:2b", "Guest:3c", "Wired connection 1:5e", "HomeNet:1a">>),
      Ok(<<"HomeNet:1a", "HomeNet:4d">>) }

\* the profiles of the known-profile outputs whose connection type is not
\* wireless: the query asks for NAME and UUID, the type is not in its output
WiredProfiles == {"eth0-ethernet", "Wired connection 1"}

\* what `nmcli -t -f SSID,SIGNAL,SECURITY,IN-USE device wifi list` can print
ScanOutputs ==
    { Err,
      Ok(<<>>),
      Ok(<<"HomeNet:80:WPA2:yes", "Guest:40:--:no">>),
      Ok(<<"Guest:40:--:", "Cafe:30:--:", "Guest:70:WPA2:">>),
      Ok(<<"Cafe:30:--:", "Guest:40:--:", "HomeNet:80:WPA2:", "Lab:60:WPA2:">>),
      Ok(<<"HomeNet:0:WPA2:", "Cafe:-5:--:", "Guest:70:WPA2:">>),
      Ok(<<":55:WPA2:", "Cafe:60:WPA2", "HomeNet:weak:WPA2:", "Guest:40:--:">>) }

-----------------------------------------------------------------------------
(* NetworkWidget: the queries and their parsing.                           *)

\* enum ConnectionState
Disconnected == [connected |-> FALSE]

Connected(ssid) == [connected |-> TRUE, ssid |-> ssid]

\* struct WifiNetwork
WifiNetwork(ssid, signal_strength, security, is_known) ==
    [ssid |-> ssid, signal_strength |-> signal_strength,
     security |-> security, is_known |-> is_known]

\* the greatest and the least i32
MaxI32 == 2147483647

MinI32 == (-MaxI32) - 1

Digits == "0123456789"

IsDigit(c) == \E i \in 1..Len(Digits) : SubSeq(Digits, i, i) = c

DigitValue(c) == (CHOOSE i \in 1..Len(Digits) : SubSeq(Digits, i, i) = c) - 1

\* whether one more digit d overflows the i32 accumulated so far
overflows(acc, d, sign) ==
    \/ sign = 1 /\ acc > (MaxI32 - d) \div 10
    \/ sign = -1 /\ acc < (MinI32 + d + 9) \div 10

\* the digits of an i32, accumulated on the side of its sign
RECURSIVE parse_digits(_, _, _)
parse_digits(s, acc, sign) ==
    IF s = "" THEN Ok(acc)
    ELSE IF ~IsDigit(SubSeq(s, 1, 1)) THEN Err
    ELSE IF overflows(acc, DigitValue(SubSeq(s, 1, 1)), sign) THEN Err
    ELSE parse_digits(SubSeq(s, 2, Len(s)),
                      acc * 10 + sign * DigitValue(SubSeq(s, 1, 1)), sign)

\* str::parse::<i32>: an optional sign and one or more decimal digits, in range
parse_i32(s) ==
    IF s = "" \/ s = "-" \/ s = "+" THEN Err
    ELSE IF StartsWith(s, "-") THEN parse_digits(SubSeq(s, 2, Len(s)), 0, -1)
    ELSE IF StartsWith(s, "+") THEN parse_digits(SubSeq(s, 2, Len(s)), 0, 1)
    ELSE parse_digits(s, 0, 1)

\* Result::unwrap_or
unwrap_or(r, default) == IF r.ok THEN r.value ELSE default

\* a status line of the active access point: ACTIVE is "yes" and an SSID field follows
is_active(parts) == Len(parts) >= 2 /\ parts[1] = "yes"

\* a variant of the operator below that takes the field after the SSID
ssid_of_line_next(lines, i) ==
    IF i = 0 THEN None ELSE Some(split(lines[i], ":")[3])

\* the SSID field of the i-th status line, None for i = 0
ssid_of_line(lines, i) ==
    IF i = 0 THEN None ELSE Some(split(lines[i], ":")[2])

\* NetworkWidget::get_current_network on the output of the status query
get_current_network(out) ==
    IF out.ok
    THEN ssid_of_line(out.value,
                      MinOr0({i \in 1..Len(out.value) : is_active(split(out.value[i], ":"))}))
    ELSE None

\* a variant of the operator below: a profile starts with full signal
known_entry_full(name) ==
    IF ~Contains(name, "ethernet") /\ ~Contains(name, "loopback")
    THEN <<WifiNetwork(name, 100, "", TRUE)>>
    ELSE <<>>

\* the known record of a profile name, none for a name that contains
\* "ethernet" or "loopback"
known_entry(name) ==
    IF ~Contains(name, "ethernet") /\ ~Contains(name, "loopback")
    THEN <<WifiNetwork(name, 0, "", TRUE)>>
    ELSE <<>>

\* the loop over the lines of the known-profile query
RECURSIVE known_profiles(_)
known_profiles(lines) ==
    IF lines = <<>> THEN <<>>
    ELSE known_entry(split(Head(lines), ":")[1]) \o known_profiles(Tail(lines))

\* the index of the first record of a list with an ssid, 0 if none
first_with_ssid(list, ssid) ==
    MinOr0({i \in 1..Len(list) : list[i].ssid = ssid})

\* the first known record with the network's ssid takes its signal and security
update_known(known, network, at) ==
    [i \in 1..Len(known) |->
        IF i = at
        THEN [known[i] EXCEPT !.signal_strength = network.signal_strength,
                              !.security = network.security]
        ELSE known[i]] \o <<>>

\* a variant of the merge below: a scanned network is pushed to the available
\* list whether it is known or not
merge_network_push(network, lists) ==
    [known     |-> IF network.is_known
                   THEN update_known(lists.known, network,
                                     first_with_ssid(lists.known, network.ssid))
                   ELSE lists.known,
     available |-> Append(lists.available, network)]

\* a scanned network is merged into the known list or pushed to the available one
merge_network(network, lists) ==
    IF network.is_known
    THEN [known     |-> update_known(lists.known, network,
                                     first_with_ssid(lists.known, network.ssid)),
          available |-> lists.available]
    ELSE [known     |-> lists.known,
          available |-> Append(lists.available, network)]

\* one row of the scan: rows of fewer than four fields or with an empty SSID
\* are skipped
scan_row(parts, lists) ==
    IF Len(parts) < 4 \/ parts[1] = "" THEN lists
    ELSE merge_network(WifiNetwork(parts[1], unwrap_or(parse_i32(parts[2]), 0), parts[3],
                                   first_with_ssid(lists.known, parts[1]) # 0),
                       lists)

\* the loop over the rows of the scan
RECURSIVE scan_rows(_, _)
scan_rows(rows, lists) ==
    IF rows = <<>> THEN lists
    ELSE scan_rows(Tail(rows), scan_row(split(Head(rows), ":"), lists))

\* a network placed into a list sorted by descending signal, behind the
\* records of equal signal
RECURSIVE insert_by_signal(_, _)
insert_by_signal(sorted, n) ==
    IF sorted = <<>> THEN <<n>>
    ELSE IF Head(sorted).signal_strength >= n.signal_strength
         THEN <<Head(sorted)>> \o insert_by_signal(Tail(sorted), n)
         ELSE <<n>> \o sorted

\* a variant of the sort below that leaves the list in scan order
sort_by_signal_none(list) == list

\* sort_by(|a, b| b.signal_strength.cmp(&a.signal_strength)): stable
RECURSIVE sort_by_signal(_)
sort_by_signal(list) ==
    IF list = <<>> THEN <<>>
    ELSE insert_by_signal(sort_by_signal(SubSeq(list, 1, Len(list) - 1)), list[Len(list)])

\* the two sorts that end get_networks
sorted_lists(lists) ==
    [known |-> sort_by_signal(lists.known), available |-> sort_by_signal(lists.available)]

\* the lines of a query output, none when the query failed
lines_of(out) == IF out.ok THEN out.value ELSE <<>>

\* NetworkWidget::get_networks on the outputs of the known-profile query and
\* of the scan
get_networks(known_out, scan_out) ==
    sorted_lists(scan_rows(lines_of(scan_out),
                           [known     |-> known_profiles(lines_of(known_out)),
                            available |-> <<>>]))

\* get_current_network, tabulated
CurrentNetwork == [o \in StatusOutputs |-> get_current_network(o)]

\* get_networks, tabulated
GetNetworks ==
    [x \in {<<k, s>> : k \in KnownOutputs, s \in ScanOutputs} |-> get_networks(x[1], x[2])]

-----------------------------------------------------------------------------
(* NetworkWidget: update and show.                                         *)

\* the match that computes connection_changed
connection_changed(old, current) ==
    CASE old.connected /\ current.some   -> old.ssid # current.value
      [] old.connected /\ ~current.some  -> TRUE
      [] ~old.connected /\ current.some  -> TRUE
      [] OTHER                           -> FALSE

\* a variant of the fetch condition: one empty list is enough
fetch_all_either_empty(changed, known, available) ==
    changed \/ known = <<>> \/ available = <<>>

\* the condition under which update() fetches all networks
fetch_all(changed, known, available) ==
    changed \/ (known = <<>> /\ available = <<>>)

\* the connection state update() stores for what get_current_network returned
state_of(current) ==
    IF current.some THEN Connected(current.value) ELSE Disconnected

\* a query as the log records it
NmQuery(cmd, out) == [cmd |-> cmd, ok |-> out.ok, out |-> out]

\* update() past the status query, on the widget fields w: the fields after
\* it and the queries issued
update_with(w, current, fetch, status_out, known_out, scan_out) ==
    [connection_state   |-> state_of(current),
     known_networks     |-> IF fetch THEN GetNetworks[<<known_out, scan_out>>].known
                            ELSE w.known_networks,
     available_networks |-> IF fetch THEN GetNetworks[<<known_out, scan_out>>].available
                            ELSE w.available_networks,
     calls              |-> IF fetch
                            THEN <<NmQuery("status", status_out), NmQuery("known", known_out),
                                   NmQuery("scan", scan_out)>>
                            ELSE <<NmQuery("status", status_out)>>]

\* whether update() on the fields w fetches all networks when
\* get_current_network returns current
fetches(w, current) ==
    fetch_all(connection_changed(w.connection_state, current),
              w.known_networks, w.available_networks)

\* NetworkWidget::update on the widget fields w, for the outputs of the queries
update(w, status_out, known_out, scan_out) ==
    update_with(w, CurrentNetwork[status_out], fetches(w, CurrentNetwork[status_out]),
                status_out, known_out, scan_out)

\* a variant of the condition below: any signal will do
signal_any(network) == TRUE

\* the condition of the three pushes of show(): only a network with signal
has_signal(network) == network.signal_strength > 0

\* the index of the first record of a list with the connected ssid and signal
find_current(list, current) ==
    MinOr0({i \in 1..Len(list) : list[i].ssid = current /\ has_signal(list[i])})

\* the first record of the connected ssid with signal among the records found
\* in the known (index k) and the available (index a) list, flagged connected
current_entry(known, k, available, a) ==
    IF k # 0 THEN << <<known[k], TRUE>> >>
    ELSE IF a # 0 THEN << <<available[a], TRUE>> >>
    ELSE <<>>

\* "Add connected network first"
connected_first(state, known, available) ==
    IF state.connected
    THEN current_entry(known, find_current(known, state.ssid),
                       available, find_current(available, state.ssid))
    ELSE <<>>

\* a network of the second or third loop, unflagged, unless it has the
\* connected ssid or no signal
other_entry(network, state) ==
    IF ~(state.connected /\ network.ssid = state.ssid) /\ has_signal(network)
    THEN << <<network, FALSE>> >>
    ELSE <<>>

\* "Add known networks" / "Add available networks"
RECURSIVE other_entries(_, _)
other_entries(list, state) ==
    IF list = <<>> THEN <<>>
    ELSE other_entry(Head(list), state) \o other_entries(Tail(list), state)

\* networks_to_show as show() builds it, with the connected network last
show_list_connected_last(state, known, available) ==
    other_entries(known, state) \o other_entries(available, state)
    \o connected_first(state, known, available)

\* networks_to_show as show() builds it
show_list(state, known, available) ==
    connected_first(state, known, available)
    \o other_entries(known, state) \o other_entries(available, state)

\* is_expanded of a row
is_expanded(expanded, network) == expanded.some /\ expanded.value = network.ssid

\* the buttons an expanded row shows
buttons(network, is_connected) ==
    IF is_connected THEN {"disconnect", "forget"}
    ELSE IF network.is_known THEN {"connect", "forget"}
    ELSE {"connect"}

\* the pointer clicks a frame showing list can receive: none, on a row, or on a
\* button of an expanded row
Clicks(list, expanded) ==
    {[kind |-> "none", idx |-> 0]}
    \cup {[kind |-> "row", idx |-> i] : i \in 1..Len(list)}
    \cup UNION {{[kind |-> b, idx |-> i] : b \in buttons(list[i][1], list[i][2])} :
                    i \in {j \in 1..Len(list) : is_expanded(expanded, list[j][1])}}

\* the nmcli command a click on a button spawns; Connect on an unknown
\* network only prints a message
button_command(kind, network) ==
    CASE kind = "disconnect" -> Some(<<"nmcli", "device", "disconnect", "wifi">>)
      [] kind = "forget"     -> Some(<<"nmcli", "connection", "delete", network.ssid>>)
      [] kind = "connect" /\ network.is_known
                             -> Some(<<"nmcli", "connection", "up", network.ssid>>)
      [] OTHER               -> None

\* expanded_network after a click: a click on a row expands it, or collapses
\* it if it is the expanded one
expanded_after(expanded, list, click) ==
    IF click.kind # "row" THEN expanded
    ELSE IF is_expanded(expanded, list[click.idx][1]) THEN None
    ELSE Some(list[click.idx][1].ssid)

\* the command a click spawns
spawned_by(list, click) ==
    IF click.kind \in {"none", "row"} THEN None
    ELSE button_command(click.kind, list[click.idx][1])

\* the fields update() reads and writes
NwFields ==
    [connection_state   |-> connection_state,
     known_networks     |-> known_networks,
     available_networks |-> available_networks]

\* NetworkWidget::update()
NwUpdate ==
    \E status_out \in StatusOutputs, known_out \in KnownOutputs, scan_out \in ScanOutputs :
        \E u \in {update(NwFields, status_out, known_out, scan_out)} :
            /\ connection_state' = u.connection_state
            /\ known_networks' = u.known_networks
            /\ available_networks' = u.available_networks
            /\ nm_calls' = u.calls

\* NetworkWidget::show() on the fields as the frame's poll left them
NwShow ==
    \E list \in {show_list(connection_state', known_networks', available_networks')} :
        /\ networks_to_show' = Some(list)
        /\ \E click \in Clicks(list, expanded_network) :
            /\ expanded_network' = expanded_after(expanded_network, list, click)
            /\ nm_spawned' = spawned_by(list, click)
            /\ nm_clicked' = click

\* one frame of HyprWidgets::update with a network widget: update() when
\* should_update() says a poll is due, then show()
NwFrame ==
    /\ args.network
    /\ \/ NwUpdate
       \/ /\ UNCHANGED <<connection_state, known_networks, available_networks>>
          /\ nm_calls' = <<>>
    /\ NwShow
    /\ UNCHANGED <<args, pos_vars, ws_vars, icon_vars>>

\* NetworkWidget::new(): update() on a disconnected widget with empty lists
NwNew ==
    /\ \E status_out \in StatusOutputs, known_out \in KnownOutputs, scan_out \in ScanOutputs :
        \E u \in {update([connection_state |-> Disconnected, known_networks |-> <<>>,
                          available_networks |-> <<>>],
                         status_out, known_out, scan_out)} :
            /\ connection_state = u.connection_state
            /\ known_networks = u.known_networks
            /\ available_networks = u.available_networks
            /\ nm_calls = u.calls
    /\ expanded_network = None
    /\ networks_to_show = None
    /\ nm_spawned = None
    /\ nm_clicked = [kind |-> "none", idx |-> 0]

\* HyprWidgets.network_widget is None
NwNone ==
    /\ connection_state = Disconnected
    /\ known_networks = <<>>
    /\ available_networks = <<>>
    /\ nm_calls = <<>>
    /\ expanded_network = None
    /\ networks_to_show = None
    /\ nm_spawned = None
    /\ nm_clicked = [kind |-> "none", idx |-> 0]

\* HyprWidgets.workspace_switcher is None
WsNone ==
    /\ hypr_workspaces = <<Workspace(1)>>
    /\ hypr_active = 1
    /\ workspaces = <<>>
    /\ current_workspace = 1
    /\ hypr_calls = <<>>
    /\ hypr_windows = <<>>
    /\ windows = <<>>
    /\ ws_frame = None
    /\ close_sent = FALSE
    /\ IconNew
    /\ fs = [exists |-> {}, damaged |-> {}, find |-> Ok(<<>>)]

-----------------------------------------------------------------------------
(* The process started with --workspaces only.                             *)

\* a disk with no icon and no desktop file
EmptyFs == [exists |-> {}, damaged |-> {}, find |-> Ok(<<>>)]

InitWorkspaces ==
    /\ args = [workspaces |-> TRUE, network |-> FALSE]
    /\ Positioned
    /\ hypr_windows = <<>>
    /\ WsNew
    /\ IconNew
    /\ fs = EmptyFs
    /\ NwNone

NextWorkspaces == WsPoll \/ CompositorChange

SpecWorkspaces == InitWorkspaces /\ [][NextWorkspaces]_vars

-----------------------------------------------------------------------------
(* The icon cache of a process started with --workspaces, on a changing    *)
(* disk; the compositor stays as it was found.                             *)

InitIcons ==
    /\ args = [workspaces |-> TRUE, network |-> FALSE]
    /\ Positioned
    /\ hypr_workspaces = <<Workspace(1)>>
    /\ hypr_active = 1
    /\ hypr_windows = <<>>
    /\ WsNew
    /\ hypr_calls[1].ok /\ hypr_calls[2].ok
    /\ IconNew
    /\ fs \in FsSnapshots
    /\ NwNone

NextIcons == GetAppIcon \/ Cleanup \/ FsChange

SpecIcons == InitIcons /\ [][NextIcons]_vars

\* the switcher resolving icons on a disk that does not change
InitSearch ==
    /\ args = [workspaces |-> TRUE, network |-> FALSE]
    /\ Positioned
    /\ hypr_workspaces = <<Workspace(1)>>
    /\ hypr_active = 1
    /\ hypr_windows = <<>>
    /\ WsNew
    /\ hypr_calls[1].ok /\ hypr_calls[2].ok
    /\ IconNew
    /\ fs \in SearchSnapshots
    /\ NwNone

NextSearch == GetAppIcon \/ Cleanup

SpecSearch == InitSearch /\ [][NextSearch]_vars

-----------------------------------------------------------------------------
(* The switcher of a process started with --workspaces, tick by tick, on a *)
(* disk without icons.                                                     *)

InitSwitcher ==
    /\ args = [workspaces |-> TRUE, network |-> FALSE]
    /\ Positioned
    /\ \E w \in HyprWorlds :
        /\ hypr_workspaces = w.list
        /\ hypr_active = w.active
        /\ hypr_windows = w.windows
    /\ WsNew
    /\ IconNew
    /\ fs = EmptyFs
    /\ NwNone

NextSwitcher == WsFrame \/ WorldChange

SpecSwitcher == InitSwitcher /\ [][NextSwitcher]_vars

-----------------------------------------------------------------------------
(* The process from its first tick, while nobody touches the keyboard or   *)
(* the pointer: the positioning of the window.                             *)

InitPositioning ==
    /\ args = [workspaces |-> TRUE, network |-> FALSE]
    /\ PositioningNew
    /\ \E w \in HyprWorlds :
        /\ hypr_workspaces = w.list
        /\ hypr_active = w.active
        /\ hypr_windows = w.windows
    /\ WsNew
    /\ IconNew
    /\ fs = EmptyFs
    /\ NwNone

\* a tick without input
IdleFrame == WsFrame /\ ws_frame'.value.idle

NextPositioning == IdleFrame \/ WorldChange

SpecPositioning == InitPositioning /\ [][NextPositioning]_vars

-----------------------------------------------------------------------------
(* The process started with --network only.                                *)

InitNetwork ==
    /\ args = [workspaces |-> FALSE, network |-> TRUE]
    /\ Positioned
    /\ WsNone
    /\ NwNew

NextNetwork == NwFrame

SpecNetwork == InitNetwork /\ [][NextNetwork]_vars

-----------------------------------------------------------------------------
(* Claims about WorkspaceSwitcher::update.                                 *)

\* C1: stale-on-failure (workspaces): a poll in which a hyprctl query cannot be
\* launched or yields unusable output leaves the workspace list and the active
\* workspace id as they were before the poll.
C1_StaleOnFailure ==
    [][\A listWorks, activeWorks \in BOOLEAN :
          (~(listWorks /\ activeWorks) /\ WsUpdate(listWorks, activeWorks))
              => UNCHANGED <<workspaces, current_workspace>>]_vars

\* C3: sort invariant: in every reachable state the workspace list is sorted
\* strictly ascending by id, whatever order the compositor listed it in.
C3_SortedById ==
    \A i \in 1..(Len(workspaces) - 1) : workspaces[i].id < workspaces[i + 1].id

\* C3's case: a successful poll of a compositor that lists its workspaces out
\* of order (such as ids 2, 1) has filled the list
C3_Witness ==
    /\ Len(hypr_workspaces) >= 2
    /\ hypr_workspaces[1].id > hypr_workspaces[2].id
    /\ hypr_calls[1].ok
    /\ Len(workspaces) = Len(hypr_workspaces)
    /\ Range(workspaces) = Range(hypr_workspaces)

-----------------------------------------------------------------------------
(* Claims about IconCache.                                                 *)

\* C4: a cache hit does no work: once a get_or_load request for a class has
\* returned, a later request for that class (here: the next request the cache
\* serves) returns the same result and runs no find, probes no path and
\* decodes no file.
C4_CacheHitNoWork ==
    [][\A c \in Classes :
          (icon_call.class = c /\ GetOrLoad(c))
              => (icon_call'.ret = icon_call.ret /\ icon_call'.io = NoIo)]_vars

\* C5: cache entries are write-once: a get_or_load call, for whatever class,
\* leaves every entry the cache holds in place and as it is; a step that
\* removes or changes an entry is cleanup().
C5_WriteOnce ==
    [][/\ GetAppIcon =>
            \A k \in DOMAIN cache : k \in DOMAIN cache' /\ cache'[k] = cache[k]
       /\ (\E k \in DOMAIN cache : k \notin DOMAIN cache' \/ cache'[k] # cache[k])
            => Cleanup]_vars

\* C5's case: get_or_load has just been called for a class that has an entry,
\* on a disk where a fresh resolution of that class would produce another
\* result than the entry
C5_Witness ==
    /\ icon_call.class \in DOMAIN cache
    /\ icon_call.io = NoIo
    /\ icon_call.ret = cache[icon_call.class]
    /\ resolve(icon_call.class, fs).insert
    /\ resolve(icon_call.class, fs).ret # cache[icon_call.class]

\* C6: negative caching: a get_or_load call that misses the cache and settles
\* on no icon file returns None and records a None entry for the class.
C6_NegativeCaching ==
    [][\A c \in Classes :
          (c \notin DOMAIN cache /\ GetOrLoad(c) /\ ~icon_call'.path.some)
              => /\ icon_call'.ret = None
                 /\ c \in DOMAIN cache'
                 /\ cache'[c] = None]_vars

-----------------------------------------------------------------------------
(* Claims about NetworkWidget.                                             *)

\* the records the widget holds
NwRecords == Range(known_networks) \cup Range(available_networks)

\* C2: stale-on-failure (network): a poll in which an nmcli query cannot be
\* launched or yields unusable output leaves the connection state, the known
\* list and the available list as they were before the poll.
C2_StaleOnFailure ==
    [][(\E i \in 1..Len(nm_calls') : ~nm_calls'[i].ok)
          => UNCHANGED <<connection_state, known_networks, available_networks>>]_vars

\* C7: visibility filter: the display list show() built holds no record whose
\* signal strength is 0 or negative.
C7_VisibilityFilter ==
    networks_to_show.some =>
        \A i \in 1..Len(networks_to_show.value) :
            networks_to_show.value[i][1].signal_strength > 0

\* C7's case: show() has built a list with rows while the widget holds a
\* record of signal 0 and a record of negative signal
C7_Witness ==
    /\ networks_to_show.some
    /\ networks_to_show.value # <<>>
    /\ \E n \in NwRecords : n.signal_strength = 0
    /\ \E n \in NwRecords : n.signal_strength < 0

\* C8: connected-first: when the widget is Connected(ssid) and holds a known
\* or available record of that ssid with positive signal, the first row of the
\* display list is such a record and is flagged connected, and no later row is
\* flagged connected or has that ssid.
C8_ConnectedFirst ==
    ( /\ networks_to_show.some
      /\ connection_state.connected
      /\ \E n \in NwRecords : n.ssid = connection_state.ssid /\ n.signal_strength > 0 )
    => /\ networks_to_show.value # <<>>
       /\ networks_to_show.value[1][2]
       /\ networks_to_show.value[1][1] \in NwRecords
       /\ networks_to_show.value[1][1].ssid = connection_state.ssid
       /\ networks_to_show.value[1][1].signal_strength > 0
       /\ \A i \in 2..Len(networks_to_show.value) :
            /\ ~networks_to_show.value[i][2]
            /\ networks_to_show.value[i][1].ssid # connection_state.ssid

\* C8's case: the connected network is an available one, shown first although
\* the known list, which the other rows start with, has a network with signal
C8_Witness ==
    /\ networks_to_show.some
    /\ connection_state.connected
    /\ Len(networks_to_show.value) >= 2
    /\ networks_to_show.value[1][1] \in Range(available_networks)
    /\ networks_to_show.value[1][1].ssid = connection_state.ssid
    /\ networks_to_show.value[2][1] \in Range(known_networks)

\* C9: two-speed refresh: every update() issues the status query first; it
\* issues the known-profile query and the scan exactly when the connection
\* differs from the one held before or both lists were empty, and in every
\* other update the two lists stay as they were.
C9_TwoSpeedRefresh ==
    [][nm_calls' # <<>> =>
          /\ nm_calls'[1].cmd = "status"
          /\ ( \/ connection_state' # connection_state
               \/ (known_networks = <<>> /\ available_networks = <<>>) )
             <=> ( /\ Len(nm_calls') = 3
                   /\ nm_calls'[2].cmd = "known"
                   /\ nm_calls'[3].cmd = "scan" )
          /\ Len(nm_calls') \in {1, 3}
          /\ Len(nm_calls') = 1 => UNCHANGED <<known_networks, available_networks>>]_vars

\* C9's case: an update() that found the connection it held, with networks in
\* its lists, has issued the status query only
C9_Witness ==
    /\ Len(nm_calls) = 1
    /\ networks_to_show.some
    /\ connection_state.connected
    /\ known_networks # <<>>
    /\ available_networks # <<>>

\* C10: de-duplicated view: no two rows of the display list have the same ssid.
C10_NoDuplicateSsid ==
    networks_to_show.some =>
        \A i, j \in 1..Len(networks_to_show.value) :
            i # j => networks_to_show.value[i][1].ssid # networks_to_show.value[j][1].ssid

\* the fields of every row of a scan output
ScanParts ==
    [o \in ScanOutputs |-> [i \in 1..Len(lines_of(o)) |-> split(lines_of(o)[i], ":")] \o <<>>]

\* a row of the scan that get_networks reads a record from: four fields or
\* more and an SSID
is_record(parts) == Len(parts) >= 4 /\ parts[1] # ""

\* the index of the last record of a scan with an ssid, 0 if none
last_with_ssid(rows, ssid) ==
    -MinOr0({-i : i \in {j \in 1..Len(rows) : is_record(rows[j]) /\ rows[j][1] = ssid}})

\* whether a record of the known list has the ssid of a scan row and the signal
\* and security of another
carries(k, row, from) ==
    /\ k.ssid = row[1]
    /\ k.signal_strength = unwrap_or(parse_i32(from[2]), 0)
    /\ k.security = from[3]

\* C11: merge by ssid: after a full re-enumeration, every scanned record whose
\* ssid is that of a known profile is absent from the available list and has
\* updated the profile (the first of that ssid; it carries the signal and the
\* security of the last scanned record of the ssid); every available record has
\* is_known = false and the ssid of no known profile; every known record has
\* is_known = true.
C11_MergeBySsid ==
    Len(nm_calls) = 3 =>
        /\ \A i \in 1..Len(ScanParts[nm_calls[3].out]) :
             ( /\ is_record(ScanParts[nm_calls[3].out][i])
               /\ \E k \in Range(known_networks) : k.ssid = ScanParts[nm_calls[3].out][i][1] )
             => /\ \A a \in Range(available_networks) :
                      a.ssid # ScanParts[nm_calls[3].out][i][1]
                /\ \E k \in Range(known_networks) :
                      carries(k, ScanParts[nm_calls[3].out][i],
                              ScanParts[nm_calls[3].out][
                                  last_with_ssid(ScanParts[nm_calls[3].out],
                                                 ScanParts[nm_calls[3].out][i][1])])
        /\ \A a \in Range(available_networks) :
             ~a.is_known /\ \A k \in Range(known_networks) : k.ssid # a.ssid
        /\ \A k \in Range(known_networks) : k.is_known

\* C11's case: a full re-enumeration in which two scanned records had the ssid
\* of a known profile and another scanned record went to the available list
C11_Witness ==
    /\ Len(nm_calls) = 3
    /\ \E i, j \in 1..Len(ScanParts[nm_calls[3].out]) :
         /\ i < j
         /\ is_record(ScanParts[nm_calls[3].out][i])
         /\ is_record(ScanParts[nm_calls[3].out][j])
         /\ ScanParts[nm_calls[3].out][i][1] = ScanParts[nm_calls[3].out][j][1]
         /\ ScanParts[nm_calls[3].out][i][2] # ScanParts[nm_calls[3].out][j][2]
         /\ \E k \in Range(known_networks) : k.ssid = ScanParts[nm_calls[3].out][i][1]
    /\ available_networks # <<>>

\* C12: display ordering: in the list show() builds, only the first row can be
\* the connected one; the other rows are all the known networks with positive
\* signal that are not the connected one, in non-increasing signal order,
\* followed by all such available networks in non-increasing signal order: no
\* unknown network precedes a known one.
C12_DisplayOrdering ==
    networks_to_show.some =>
        /\ \A i \in 2..Len(networks_to_show.value) : ~networks_to_show.value[i][2]
        /\ \A i, j \in 1..Len(networks_to_show.value) :
             ( i < j /\ ~networks_to_show.value[i][2] )
             => /\ networks_to_show.value[i][1].is_known
                   \/ ~networks_to_show.value[j][1].is_known
                /\ networks_to_show.value[i][1].is_known
                       = networks_to_show.value[j][1].is_known
                   => networks_to_show.value[i][1].signal_strength
                          >= networks_to_show.value[j][1].signal_strength
        /\ \A n \in NwRecords :
             ( /\ n.signal_strength > 0
               /\ ~(connection_state.connected /\ n.ssid = connection_state.ssid) )
             => \E i \in 1..Len(networks_to_show.value) :
                   networks_to_show.value[i] = <<n, FALSE>>
        /\ \A i \in 1..Len(networks_to_show.value) :
             ~networks_to_show.value[i][2]
             => /\ networks_to_show.value[i][1].is_known
                   => networks_to_show.value[i][1] \in Range(known_networks)
                /\ ~networks_to_show.value[i][1].is_known
                   => networks_to_show.value[i][1] \in Range(available_networks)

\* C12's case: a list with two known networks of different signals followed by
\* two available networks of different signals, the first of them stronger than
\* the known network before it
C12_Witness ==
    /\ networks_to_show.some
    /\ \E i \in 1..Len(networks_to_show.value) :
         /\ i + 3 <= Len(networks_to_show.value)
         /\ \A d \in 0..3 : ~networks_to_show.value[i + d][2]
         /\ networks_to_show.value[i][1].is_known
         /\ networks_to_show.value[i + 1][1].is_known
         /\ ~networks_to_show.value[i + 2][1].is_known
         /\ ~networks_to_show.value[i + 3][1].is_known
         /\ networks_to_show.value[i][1].signal_strength
                > networks_to_show.value[i + 1][1].signal_strength
         /\ networks_to_show.value[i + 2][1].signal_strength
                > networks_to_show.value[i + 1][1].signal_strength
         /\ networks_to_show.value[i + 2][1].signal_strength
                > networks_to_show.value[i + 3][1].signal_strength

-----------------------------------------------------------------------------
(* More claims about IconCache.                                            *)

\* C15: a decode failure is absorbed into a cached negative result: a
\* get_or_load call that misses the cache and settles on an icon file that
\* cannot be read or decoded returns None and stores a None entry under the
\* requested key, for every class, those served by the fixed packaged-app
\* probes included.
C15_DecodeFailureCached ==
    [][\A c \in Classes :
          ( /\ c \notin DOMAIN cache
            /\ GetOrLoad(c)
            /\ icon_call'.path.some
            /\ load_icon(icon_call'.path, fs) = None )
          => /\ icon_call'.ret = None
             /\ c \in DOMAIN cache'
             /\ cache'[c] = None]_vars

\* C16: the cache key is the raw class: the icon of a window of class c is
\* looked up, and stored, under the key c, and the alias table is applied to c.
C16_RawClassKey ==
    [][\A c \in WindowClasses :
          (c \notin DOMAIN cache /\ ShowIcon(c) /\ icon_call'.io.find = 1 /\ fs.find.ok)
          => /\ icon_call'.class = c
             /\ c \in DOMAIN cache']_vars

-----------------------------------------------------------------------------
(* More claims about NetworkWidget.                                        *)

\* the profile names that a known-profile query output lists
profile_names(out) == {split(lines_of(out)[i], ":")[1] : i \in 1..Len(lines_of(out))}

\* the display list as <<ssid, is_known, signal>> rows
shown_rows ==
    [i \in 1..Len(networks_to_show.value) |->
        <<networks_to_show.value[i][1].ssid,
          networks_to_show.value[i][1].is_known,
          networks_to_show.value[i][1].signal_strength>>]

\* the frame has re-enumerated with the status row and the scan rows of
\* scenario 2
Scenario2 ==
    /\ networks_to_show.some
    /\ Len(nm_calls) = 3
    /\ nm_calls[1].out = Ok(<<"yes:HomeNet:80">>)
    /\ nm_calls[3].out = Ok(<<"HomeNet:80:WPA2:yes", "Guest:40:--:no">>)

\* the outcome of scenario 2
Scenario2Outcome ==
    /\ connection_state = Connected("HomeNet")
    /\ shown_rows = << <<"HomeNet", TRUE, 80>>, <<"Guest", FALSE, 40>> >>

\* C17 as stated: scenario 2: with the status row `yes:HomeNet:80` and the scan
\* rows `HomeNet:80:WPA2:yes` and `Guest:40:--:no`, after update() the
\* connection is Connected("HomeNet") and the display list is exactly
\* [HomeNet known 80, Guest unknown 40].
C17_Scenario2AsStated == Scenario2 => Scenario2Outcome

\* C17: scenario 2, when the known-profile query of the re-enumeration lists a
\* profile HomeNet and no profile Guest.
C17_Scenario2 ==
    ( /\ Scenario2
      /\ "HomeNet" \in profile_names(nm_calls[2].out)
      /\ "Guest" \notin profile_names(nm_calls[2].out) )
    => Scenario2Outcome

\* C17's case: the frame of scenario 2 with HomeNet saved has run
C17_Witness ==
    /\ Scenario2
    /\ "HomeNet" \in profile_names(nm_calls[2].out)
    /\ "Guest" \notin profile_names(nm_calls[2].out)
    /\ Len(networks_to_show.value) = 2

\* the saved profiles of the last re-enumeration that the widget takes for
\* Wi-Fi profiles and that no row of its scan names
unscanned_profiles ==
    {name \in profile_names(nm_calls[2].out) :
        /\ known_entry(name) # <<>>
        /\ \A i \in 1..Len(ScanParts[nm_calls[3].out]) :
             ScanParts[nm_calls[3].out][i][1] # name}

\* C18: zero-signal known profiles are kept but hidden: after a full
\* re-enumeration, a saved profile that only the known-profile query lists (no
\* scan row has its name) is in known_networks with signal 0 and is_known =
\* true, and it is not in the display list.
C18_ZeroSignalKnownHidden ==
    Len(nm_calls) = 3 =>
        \A name \in unscanned_profiles :
            /\ \E k \in Range(known_networks) : k.ssid = name
            /\ \A k \in Range(known_networks) :
                 k.ssid = name => k.signal_strength = 0 /\ k.is_known
            /\ \A a \in Range(available_networks) : a.ssid # name
            /\ networks_to_show.some
               => \A i \in 1..Len(networks_to_show.value) :
                     networks_to_show.value[i][1].ssid # name

\* C18's case: a frame has re-enumerated and shown a list with rows while a
\* saved profile had no scan row
C18_Witness ==
    /\ Len(nm_calls) = 3
    /\ unscanned_profiles # {}
    /\ networks_to_show.some
    /\ networks_to_show.value # <<>>
    /\ connection_state.connected
    /\ connection_state.ssid \in unscanned_profiles

-----------------------------------------------------------------------------
(* Claims about the ticks of the switcher.                                 *)

\* C13: bounded poll cadence: a tick that falls inside the poll interval
\* (should_update() is false) and follows no user action issues no compositor
\* query: no workspace list, no active workspace and no window list query.
C13_BoundedPollCadence ==
    (ws_frame.some /\ ~ws_frame.value.due /\ ws_frame.value.idle) => hypr_calls = <<>>

\* C14: atomic per-frame snapshot: the window list a frame draws from comes
\* from the poll of its tick, as the workspace list and the active id do: no
\* frame queries the windows without having polled the workspace list and the
\* active workspace in the same tick.
C14_AtomicSnapshot ==
    ws_frame.some =>
        \A i \in 1..Len(hypr_calls) :
            hypr_calls[i].cmd = "clients"
            => /\ i = 3
               /\ hypr_calls[1].cmd = "workspaces"
               /\ hypr_calls[2].cmd = "activeworkspace"

\* C19: forced refresh after a switch: in a tick whose user action selects a
\* workspace, show() issues the switch dispatch and then the two queries of
\* update(), whether the poll was due or not, and the fields it holds at its
\* end are what the compositor reported after the dispatch: the selected
\* workspace is the current one when the dispatch and the query worked.
C19_ForcedRefresh ==
    (ws_frame.some /\ ws_frame.value.selected.some) =>
        /\ Len(hypr_calls) >= 4
        /\ hypr_calls[Len(hypr_calls) - 3].cmd = "clients"
        /\ hypr_calls[Len(hypr_calls) - 2].cmd = "dispatch"
        /\ hypr_calls[Len(hypr_calls) - 1].cmd = "workspaces"
        /\ hypr_calls[Len(hypr_calls)].cmd = "activeworkspace"
        /\ workspaces = get_workspaces(HyprReply(hypr_calls[Len(hypr_calls) - 1].ok,
                                                 hypr_workspaces))
        /\ current_workspace = get_current_workspace(HyprReply(hypr_calls[Len(hypr_calls)].ok,
                                                               Workspace(hypr_active)))
        /\ (hypr_calls[Len(hypr_calls) - 2].ok /\ hypr_calls[Len(hypr_calls)].ok)
           => current_workspace = ws_frame.value.selected.value

\* C19's case: a tick inside the poll interval in which a click or a key
\* selected another workspace than the compositor's active one, with hyprctl
\* working: the switcher holds the selected workspace as the current one
C19_Witness ==
    /\ ws_frame.some
    /\ ~ws_frame.value.due
    /\ ws_frame.value.selected.some
    /\ Len(hypr_calls) = 4
    /\ \A i \in 1..4 : hypr_calls[i].ok
    /\ current_workspace = ws_frame.value.selected.value
    /\ current_workspace # 1
    /\ Len(workspaces) >= 2

\* C20: explicit clear at shutdown: once the frame has sent the close command
\* (the shutdown path), cleanup() has run: the cache holds no entry and the
\* switcher holds no background texture.
C20_ClearAtShutdown ==
    close_sent => (cache = EmptyMap /\ background = None)

-----------------------------------------------------------------------------
(* Claims about the buttons of NetworkWidget::show.                        *)

\* C21: action intents are fire-and-forget: a frame in which Disconnect, Forget
\* or Connect is clicked spawns the external command, and the click leaves
\* connection_state, known_networks and available_networks as they are: they
\* change only in an update() poll.
C21_FireAndForget ==
    [][nm_clicked'.kind \in {"disconnect", "forget", "connect"}
          => /\ nm_spawned'.some
             /\ nm_calls' = <<>>
                => UNCHANGED <<connection_state, known_networks, available_networks>>]_vars

\* C22: known-profile filtering: after a full re-enumeration whose
\* known-profile query worked, no entry of the query with a non-wireless
\* connection type is in known_networks, and every wireless profile is,
\* whatever its name.
C22_KnownProfileFiltering ==
    (Len(nm_calls) = 3 /\ nm_calls[2].ok) =>
        \A name \in profile_names(nm_calls[2].out) :
            (name \notin WiredProfiles) <=> (\E k \in Range(known_networks) : k.ssid = name)

-----------------------------------------------------------------------------
(* Claims about the resolution of an icon.                                 *)

\* C23: fixed output shape: every bitmap load_svg or load_png produces, be it
\* returned by get_or_load or stored in the cache, is IconSize x IconSize (24
\* x 24) pixels, whatever the intrinsic width and height of the source; the
\* only other outcome is None.
C23_FixedOutputShape ==
    /\ icon_call.ret.some => icon_call.ret.value.size = <<24, 24>>
    /\ \A k \in DOMAIN cache : cache[k].some => cache[k].value.size = <<24, 24>>

\* C23's case: get_or_load has returned a bitmap decoded from a .png file whose
\* image is neither 24 pixels wide nor square
C23_Witness ==
    /\ icon_call.ret.some
    /\ icon_call.path.some
    /\ EndsWith(icon_call.path.value, ".png")
    /\ SourceSize(icon_call.path.value)[1] # SourceSize(icon_call.path.value)[2]
    /\ SourceSize(icon_call.path.value)[1] # 24

\* C24: desktop-entry first match wins: a resolution that gets to the desktop
\* files reads them in the order find listed them up to the first file m whose
\* Name= or Exec= line contains the lookup or the class name, whatever the
\* case, and no file after it; the icon name it searches for is the first
\* Icon= value of m.
C24_FirstMatchWins ==
    [][\A c \in Classes :
          (c \notin DOMAIN cache /\ GetOrLoad(c) /\ icon_call'.io.find = 1 /\ fs.find.ok)
          => \A m \in {MinOr0({i \in 1..Len(fs.find.value) :
                                 is_match(DesktopContent(tilde(fs.find.value[i])),
                                          lookup_class(c), c)})} \ {0} :
                /\ icon_call'.io.reads = m
                /\ Some(searched_icon_name(c, fs.find.value))
                       = icon_line(DesktopContent(tilde(fs.find.value[m])))]_vars

\* C25: packaged-app probes come first: a resolution for the class "discord"
\* or "Discord" probes the three fixed Flatpak paths in order before find is
\* run; when the i-th is the first that exists, the call has made i probes and
\* nothing else (no find, no desktop file read), and its result is the decode
\* of that file; when none exists, the three probes are made and find is run.
C25_PackagedAppProbesFirst ==
    [][\A c \in {"discord", "Discord"} :
          (c \notin DOMAIN cache /\ GetOrLoad(c))
          => /\ \A i \in 1..Len(flatpak_paths) :
                   (/\ tilde(flatpak_paths[i]) \in fs.exists
                    /\ \A j \in 1..(i - 1) : tilde(flatpak_paths[j]) \notin fs.exists)
                   => /\ icon_call'.io = [find |-> 0, reads |-> 0, probes |-> i, decodes |-> 1]
                      /\ icon_call'.path = Some(tilde(flatpak_paths[i]))
                      /\ icon_call'.ret = load_png(tilde(flatpak_paths[i]), fs)
             /\ (\A i \in 1..Len(flatpak_paths) : tilde(flatpak_paths[i]) \notin fs.exists)
                   => /\ icon_call'.io.find = 1
                      /\ icon_call'.io.probes >= Len(flatpak_paths)]_vars

\* C25's case: a call for a Discord class has just settled on the third fixed
\* path, after three probes, while find lists a desktop file of Discord
C25_Witness ==
    /\ icon_call.class \in {"discord", "Discord"}
    /\ icon_call.path = Some(tilde(flatpak_paths[3]))
    /\ icon_call.io = [find |-> 0, reads |-> 0, probes |-> 3, decodes |-> 1]
    /\ icon_call.ret.some
    /\ fs.find = Ok(<<DiscordDesktop, FirefoxDesktop>>)

\* the theme root, size tier, category, name variant and extension of a probe
ThemeProbes ==
    (1..Len(icon_theme_paths)) \X (1..Len(sizes)) \X (1..Len(categories)) \X (1..6) \X (1..2)

\* the path of the probe t of the search for name n
theme_probe_path(n, t) ==
    possible_paths(icon_theme_paths[t[1]], sizes[t[2]], categories[t[3]],
                   IconVariations[n][t[4]])[t[5]]

\* the place of the probe t in the enumeration root x size x category x
\* variant x extension, the root outermost
theme_probe_rank(t) ==
    ((((t[1] - 1) * Len(sizes) + (t[2] - 1)) * Len(categories) + (t[3] - 1)) * 6
        + (t[4] - 1)) * 2 + t[5]

\* the probes of the search for name n whose path a disk of the model can
\* hold, each with its place in the enumeration
ThemeHits ==
    [n \in IconNames |->
        {[rank |-> theme_probe_rank(t), path |-> theme_probe_path(n, t)] :
            t \in {t \in ThemeProbes : theme_probe_path(n, t) \in IconFiles \cup SearchFiles}}
        \cup {}]

\* the icon name of the last call, when that call got past find
called_icon_name == searched_icon_name(icon_call.class, fs.find.value)

\* C26: icon-theme search order: with 7 theme roots, the size tiers 256x256
\* down to 16x16 and then scalable, the categories apps, devices, places,
\* status and 6 name variants, a resolution that reaches the theme search
\* settles on the first existing path of the enumeration root (outermost) x
\* size x category x variant (innermost), .png before .svg: whenever a path
\* of the enumeration exists, the chosen path exists and is that path or one
\* enumerated before it.
C26_ThemeSearchOrder ==
    (icon_call.io.find = 1 /\ fs.find.ok) =>
        /\ Len(icon_theme_paths) = 7
        /\ sizes = <<"256x256", "128x128", "64x64", "48x48", "32x32", "24x24", "16x16", "scalable">>
        /\ categories = <<"apps", "devices", "places", "status">>
        /\ Len(IconVariations[called_icon_name]) = 6
        /\ \A t \in ThemeHits[called_icon_name] :
              t.path \in fs.exists
              => \E u \in ThemeHits[called_icon_name] :
                    /\ u.rank <= t.rank
                    /\ u.path \in fs.exists
                    /\ icon_call.path = Some(u.path)

\* C26's case: the last call settled on the 48x48 .png of the first root that
\* has the icon, on a disk that also holds the .svg beside it, the scalable
\* .svg of that root and a 128x128 .png under a later root
C26_Witness ==
    /\ icon_call.io.find = 1
    /\ icon_call.path = Some("/usr/share/icons/hicolor/48x48/apps/firefox.png")
    /\ { "/usr/share/icons/hicolor/48x48/apps/firefox.svg",
         "/usr/share/icons/hicolor/scalable/apps/firefox.svg",
         "/usr/share/icons/Papirus/128x128/apps/firefox.png" } \subseteq fs.exists

\* C27: fallback tier: a resolution that reaches the theme search probes the
\* fallback paths only when no path of the theme enumeration exists; it then
\* probes /usr/share/pixmaps/<name>.png, .svg, .xpm and <name> itself, in that
\* order, and settles on the first that exists, or on nothing; <name> is the
\* Icon= value taken from the desktop files, or the alias-mapped class when
\* there is none.
C27_FallbackTier ==
    (icon_call.io.find = 1 /\ fs.find.ok) =>
        \A name \in {called_icon_name} :
        \A fb \in {<< "/usr/share/pixmaps/" \o name \o ".png",
                      "/usr/share/pixmaps/" \o name \o ".svg",
                      "/usr/share/pixmaps/" \o name \o ".xpm",
                      name >>} :
        \A fixed \in {IF lookup_class(icon_call.class) = "com.discordapp.Discord"
                      THEN Len(flatpak_paths) ELSE 0} :
            /\ name = IF FoundIconName[<<icon_call.class, fs.find.value>>].some
                      THEN FoundIconName[<<icon_call.class, fs.find.value>>].value
                      ELSE lookup_class(icon_call.class)
            /\ IF \E t \in ThemeHits[name] : t.path \in fs.exists
               THEN /\ icon_call.io.probes <= fixed + Len(IconSearchPaths[name])
                    /\ \E t \in ThemeHits[name] : icon_call.path = Some(t.path)
               ELSE /\ \A i \in 1..4 :
                          (fb[i] \in fs.exists /\ \A j \in 1..(i - 1) : fb[j] \notin fs.exists)
                          => /\ icon_call.path = Some(fb[i])
                             /\ icon_call.io.probes = fixed + Len(IconSearchPaths[name]) + i
                    /\ (\A i \in 1..4 : fb[i] \notin fs.exists)
                          => /\ icon_call.path = None
                             /\ icon_call.io.probes = fixed + Len(IconSearchPaths[name]) + 4

\* C27's case: no theme file exists and the last call settled on the pixmaps
\* .svg, the second fallback, while the .xpm after it exists too
C27_Witness ==
    /\ icon_call.io.find = 1
    /\ icon_call.path = Some("/usr/share/pixmaps/firefox.svg")
    /\ "/usr/share/pixmaps/firefox.xpm" \in fs.exists
    /\ icon_call.io.probes = Len(IconSearchPaths["firefox"]) + 2

\* the index of the first window of a class on a workspace in the list the
\* frame drew, 0 if there is none
first_window_on(class, id) ==
    MinOr0({i \in 1..Len(windows) : windows[i].class = class /\ windows[i].workspace = id})

\* C28: per-workspace class set: on the button of every workspace of a frame,
\* the classes an icon is asked for are classes of windows of that workspace,
\* never "hypowertools", without repetition and in the order of their first
\* window in the list; they are the first 3 of the distinct classes, or all of
\* them when there are at most 3; the overflow label is drawn when there are
\* more than 3 and shows their number less 3.
C28_ClassSet ==
    ws_frame.some =>
        \A k \in 1..Len(ws_frame.value.drawn) :
        \A b \in {ws_frame.value.drawn[k]} :
        \A distinct \in {{w.class : w \in {x \in Range(windows) :
                            x.workspace = b.id /\ x.class # "hypowertools"}}} :
            /\ Len(b.icons) = Min({3, Cardinality(distinct)})
            /\ \A i \in 1..Len(b.icons) :
                  /\ b.icons[i] \in distinct
                  /\ Cardinality({c \in distinct :
                        first_window_on(c, b.id) < first_window_on(b.icons[i], b.id)}) = i - 1
            /\ b.more = IF Cardinality(distinct) > 3 THEN Cardinality(distinct) - 3 ELSE 0

\* C28's case: a frame drew a workspace with windows of more than 3 distinct
\* classes, a repeated class and the switcher's own window among them
C28_Witness ==
    /\ ws_frame.some
    /\ \E k \in 1..Len(ws_frame.value.drawn) :
          /\ ws_frame.value.drawn[k].more = 1
          /\ ws_frame.value.drawn[k].icons = <<"firefox", "Discord", "discord">>
          /\ \E i \in 1..Len(windows) :
                windows[i] = Window("hypowertools", ws_frame.value.drawn[k].id)

\* C30: keyboard navigation stays inside the list: in a frame that reads the
\* list L and the active id a, ArrowLeft selects the workspace just before the
\* one with id a and nothing when that one is first or a is not in L;
\* ArrowRight and Tab select the one just after it and nothing when it is last,
\* a is not in L or L is empty; a number key n (key 0 standing for 10) selects
\* the workspace with id n and closes the overlay when L has one, and does
\* neither otherwise; whatever the input, the id passed to
\* switch_to_workspace is the id of a workspace of L.
C30_NavigationInsideList ==
    ws_frame.some =>
        \A f \in {ws_frame.value} :
        \A at \in {{i \in 1..Len(f.list) : f.list[i].id = f.current}} :
            /\ f.input.kind = "ArrowLeft" =>
                  /\ f.selected = IF at # {} /\ 1 \notin at
                                  THEN Some(f.list[Min(at) - 1].id) ELSE None
                  /\ ~close_sent
            /\ f.input.kind \in {"ArrowRight", "Tab"} =>
                  /\ f.selected = IF at # {} /\ Len(f.list) \notin at
                                  THEN Some(f.list[Min(at) + 1].id) ELSE None
                  /\ ~close_sent
            /\ f.input.kind = "Num" =>
                  IF \E i \in 1..Len(f.list) : f.list[i].id = f.input.n
                  THEN f.selected = Some(f.input.n) /\ close_sent
                  ELSE f.selected = None /\ ~close_sent
            /\ f.selected.some => \E i \in 1..Len(f.list) : f.list[i].id = f.selected.value
            /\ \A i, j \in 1..Len(f.list) : i < j => f.list[i].id < f.list[j].id

\* C30's case: with three workspaces listed and the last one active, ArrowLeft
\* selected the second
C30_Witness ==
    /\ ws_frame.some
    /\ ws_frame.value.input.kind = "ArrowLeft"
    /\ Len(ws_frame.value.list) = 3
    /\ ws_frame.value.current = ws_frame.value.list[3].id
    /\ ws_frame.value.selected = Some(ws_frame.value.list[2].id)
    /\ hypr_active = ws_frame.value.list[2].id

\* C29: bounded one-time positioning: the attempt counter never decreases and
\* never exceeds 5; once POSITIONED is set it stays set and the counter stays;
\* in a tick the positioning block runs, and counts one attempt, exactly when
\* POSITIONED is not set and fewer than 5 attempts were made; an attempt sets
\* POSITIONED exactly when its client list shows the overlay's own window; and
\* the block requests a repaint exactly after an attempt that leaves
\* POSITIONED unset.
C29_BoundedPositioning ==
    [][/\ ATTEMPTS' >= ATTEMPTS
       /\ ATTEMPTS' <= 5
       /\ POSITIONED => (POSITIONED' /\ ATTEMPTS' = ATTEMPTS)
       /\ WsFrame =>
            /\ pos_tick'.attempt <=> (~POSITIONED /\ ATTEMPTS < 5)
            /\ ATTEMPTS' = ATTEMPTS + (IF pos_tick'.attempt THEN 1 ELSE 0)
            /\ pos_tick'.attempt =>
                  (POSITIONED' <=> /\ hypr_calls'[1] = [cmd |-> "clients", ok |-> TRUE]
                                   /\ \E i \in 1..Len(hypr_windows) :
                                         hypr_windows[i].class = "hypowertools")
            /\ pos_tick'.repaint <=> (pos_tick'.attempt /\ ~POSITIONED')]_vars

\* C29's case: the third attempt has just found the window: POSITIONED is
\* set and the block requested no repaint
C29_Witness ==
    /\ POSITIONED
    /\ ATTEMPTS = 3
    /\ pos_tick = [attempt |-> TRUE, repaint |-> FALSE]

====
